---- MODULE Spec2Model ----
(***************************************************************************)
(* Model of static/css/js/script.js: the browser-side controller of the    *)
(* multi-language translator.  Every event listener and every continuation *)
(* of an async handler (the code after an await) is one atomic action: the *)
(* browser runs them one at a time on a single event loop.                 *)
(*                                                                         *)
(* Texts.  The text box holds strings of up to 5001 characters here, so a  *)
(* string is kept in run-length form: `lead` spaces, then `body` copies of *)
(* the non-space character `ch`, then `trail` spaces.  A string of spaces  *)
(* only has body = 0, trail = 0 and ch = "".                               *)
(***************************************************************************)
EXTENDS Naturals, Sequences, FiniteSets

(***************************************************************************)
(* Bounds of the model (not program constants).                            *)
(***************************************************************************)
\* Requests in flight at one time, over the three endpoints together.
MaxRequests == 2
\* Pending timers of notifications that are no longer in the document.
MaxStale == 2
\* Debounce timer handles alive at one time.
MaxTimers == 2
\* Clipboard writes in flight, and "Copied!" label timers pending.
MaxCopies == 1

(***************************************************************************)
(* Program constants.                                                      *)
(***************************************************************************)
\* translate(): text.length > 5000; counter listener: count > 5000
MaxChars == 5000
\* detectLanguage(): text.length < 3
MinDetectLen == 3
\* debounced input listener: inputText.value.trim().length >= 3
MinArmLen == 3

(***************************************************************************)
(* Strings in run-length form.                                             *)
(***************************************************************************)
Txt(l, b, t, c) == [lead |-> l, body |-> b, trail |-> t, ch |-> c]

EmptyText == Txt(0, 0, 0, "")

\* String.prototype.length
StrLen(t) == t.lead + t.body + t.trail

\* String.prototype.trim
Trim(t) == IF t.body = 0 THEN EmptyText ELSE Txt(0, t.body, 0, t.ch)

\* What the user can type or paste into the text box.
Texts ==
    { EmptyText,                       \* ""
      Txt(1, 0, 0, ""),                \* " "
      Txt(0, 2, 0, "a"),               \* "aa"
      Txt(1, 3, 1, "a"),               \* " aaa "
      Txt(0, MaxChars, 1, "a"),        \* 5000 x "a" and a trailing space
      Txt(0, MaxChars + 1, 0, "a") }   \* 5001 x "a"

\* data-text of the example-text buttons (.quick-btn)
QuickTexts == { Txt(1, 3, 1, "a") }

(***************************************************************************)
(* Languages: the options of the #targetLang select and what the server    *)
(* can name.                                                               *)
(***************************************************************************)
Langs == {"en", "fr"}

LangName(c) == IF c = "en" THEN "English" ELSE "French"

\* selectedOption.text.split('(')[0].trim() for the option whose value is c;
\* the option texts have the form "French (fr)".
OptionName(c) == LangName(c)

(***************************************************************************)
(* What the server can answer.                                             *)
(***************************************************************************)
ServerError == "server says no"
NetError    == "Failed to fetch"
ParseError  == "Unexpected token"

Resp(k, e, t, s, g) == [kind |-> k, error |-> e, text |-> t, src |-> s, tgt |-> g]

NoResp == Resp("none", "", "", "", "")

\* kind "ok": success true; "fail": success false, with or without an error
\* field; "neterr": fetch rejects; "parseerr": response.json() rejects.
Failures ==
    { Resp("fail", ServerError, "", "", ""), Resp("fail", "", "", "", ""),
      Resp("neterr", NetError, "", "", ""), Resp("parseerr", ParseError, "", "", "") }

\* /translate: {success, translated_text, source_lang, source_code, target_lang,
\* target_code}
TranslateResponses ==
    { Resp("ok", "", "T1", "en", "fr"), Resp("ok", "", "T2", "fr", "en"),
      Resp("ok", "", "", "en", "fr") } \cup Failures

\* /detect: {success, language, code}
DetectResponses == { Resp("ok", "", "", s, "") : s \in Langs } \cup Failures

\* /tts: {success, audio_url}
TtsResponses == { Resp("ok", "", "", "", "") } \cup Failures

\* The audio the server synthesizes for a /tts request, named by what it was
\* synthesized from.
Audio(t, l) == [text |-> t, lang |-> l]

NoAudio == Audio("", "")

(***************************************************************************)
(* State.                                                                  *)
(***************************************************************************)
VARIABLES
    inputText,          \* inputText.value
    charCounter,        \* [count, warn]: charCounter.textContent, and whether its colour is the warning colour
    targetLang,         \* targetLang.value
    targetLangName,     \* targetLangName.textContent
    targetLangCode,     \* targetLangCode.textContent
    detectedLang,       \* detectedLang.textContent
    detectedLangCode,   \* detectedLangCode.textContent
    outputText,         \* outputText.innerHTML
    currentTranslation, \* let currentTranslation
    currentAudioUrl,    \* let currentAudioUrl
    audioElement,       \* audioElement.src (and downloadAudio.href)
    audioPlayer,        \* audioPlayer.style.display
    translateBtn,       \* [disabled, label]
    speakBtn,           \* [disabled, label]
    copyBtn,            \* [disabled, label]
    downloadBtn,        \* [disabled]
    detectTimeout,      \* let detectTimeout: the last handle, 0 while undefined
    timers,             \* handles of the pending debounce timers
    translateReqs,      \* /translate requests in flight, in the order issued
    ttsReqs,            \* /tts requests in flight, in the order issued
    detectReqs,         \* /detect requests in flight, in the order issued
    clipboard,          \* [writes, timers]: clipboard writes in flight, label timers pending
    alertDom,           \* .alert elements of the document, in document order:
                        \* [msg, type, auto, removing, removals], auto while the
                        \* element's 5 s timer is pending, removing once its exit
                        \* animation was started, removals the number of its
                        \* 300 ms removal timers that are pending
    alertStale,         \* [auto, removal]: pending timers of detached elements
    last,               \* history: the handler that ran last
    burst               \* history, since the last input event: [intact, sent, rearmed],
                        \* intact until clearAll empties the text box, sent the
                        \* number of debounced /detect requests, rearmed if the
                        \* event cancelled a pending timer and set a new one

domVars   == <<inputText, charCounter, targetLang, targetLangName, targetLangCode,
               detectedLang, detectedLangCode, outputText, audioElement, audioPlayer,
               translateBtn, speakBtn, copyBtn, downloadBtn>>
jsVars    == <<currentTranslation, currentAudioUrl, detectTimeout>>
netVars   == <<timers, translateReqs, ttsReqs, detectReqs, clipboard>>
alertVars == <<alertDom, alertStale>>
vars      == <<domVars, jsVars, netVars, alertVars, last, burst>>


(***************************************************************************)
(* History variables.                                                      *)
(***************************************************************************)
\* A request in flight: what its body carries.  `rel` is history kept with a
\* /translate request: "newer" once a success response of a request issued
\* after it has been handled, "older" once one of a request issued before it
\* has, "no" until then.  `origin` is history kept with a /detect request.
Req(t, l, o) == [text |-> t, lang |-> l, rel |-> "no", origin |-> o]

NoReq == Req(EmptyText, "", "")

Last(o, i, c, s, q, r) ==
    [op |-> o, input |-> i, cur |-> c, sent |-> s, req |-> q, resp |-> r]

Other == Last("other", EmptyText, "", FALSE, NoReq, NoResp)

(***************************************************************************)
(* Initial state: the module-level declarations, the markup the script     *)
(* binds to, and init().                                                   *)
(***************************************************************************)
\* The markup of the page as the script finds it.
Markup ==
    /\ inputText = EmptyText
    /\ charCounter = [count |-> 0, warn |-> FALSE]
    /\ targetLang \in Langs
    /\ detectedLang = "Auto-Detect"
    /\ detectedLangCode = "--"
    /\ outputText = [shown |-> "placeholder", from |-> "", to |-> "", text |-> ""]
    /\ audioElement = NoAudio
    /\ audioPlayer = "none"
    /\ translateBtn = [disabled |-> FALSE, label |-> "Translate Now"]
    /\ speakBtn = [disabled |-> TRUE, label |-> "Listen"]
    /\ copyBtn = [disabled |-> TRUE, label |-> "Copy"]
    /\ downloadBtn = [disabled |-> TRUE]
    /\ alertDom = <<>>

Init ==
    /\ Markup
    /\ currentTranslation = ""
    /\ currentAudioUrl = NoAudio
    /\ detectTimeout = 0
    /\ targetLangName = OptionName(targetLang)
    /\ targetLangCode = targetLang
    /\ timers = {}
    /\ translateReqs = <<>>
    /\ ttsReqs = <<>>
    /\ detectReqs = <<>>
    /\ clipboard = [writes |-> 0, timers |-> 0]
    /\ alertStale = [auto |-> 0, removal |-> 0]
    /\ last = Other
    /\ burst = [intact |-> TRUE, sent |-> 0, rearmed |-> FALSE]

(***************************************************************************)
(* Helpers.                                                                *)
(***************************************************************************)
Range(s) == { s[i] : i \in 1 .. Len(s) }

Least(S) == CHOOSE x \in S : \A y \in S : x <= y

RemoveAt(s, i) == [j \in 1 .. (Len(s) - 1) |-> IF j < i THEN s[j] ELSE s[j + 1]]

InFlight == Len(translateReqs) + Len(ttsReqs) + Len(detectReqs)

\* Room for one more request within the bound of the model.
CanFetch == InFlight < MaxRequests

(***************************************************************************)
(* showAlert and the timers and close handler it sets up.  A timer or a    *)
(* close handler refers to the element its closure captured (const alert), *)
(* so the timers of an element in the document are kept with the element   *)
(* and those of a detached element are only counted.                       *)
(***************************************************************************)
\* Mutant of RemoveExisting: the notification on display is not removed.
RemoveExistingNone(dom) == dom

\* const existing = document.querySelector('.alert'); if (existing) existing.remove();
RemoveExisting(dom) == IF dom = <<>> THEN <<>> ELSE Tail(dom)

Bit(b) == IF b THEN 1 ELSE 0

\* The removal timers pending on the elements of `gone`.
RECURSIVE Removals(_)
Removals(gone) ==
    IF gone = <<>> THEN 0 ELSE Head(gone).removals + Removals(Tail(gone))

\* The pending timers once the elements of `gone` have left the document.
Detach(gone) ==
    [auto    |-> alertStale.auto + Cardinality({k \in DOMAIN gone : gone[k].auto}),
     removal |-> alertStale.removal + Removals(gone)]

StaleCount(st) == st.auto + st.removal

\* function showAlert(message, type)
ShowAlert(m, t) ==
    LET kept == RemoveExisting(alertDom)
        gone == SubSeq(alertDom, 1, Len(alertDom) - Len(kept))
    IN  /\ StaleCount(Detach(gone)) <= MaxStale
        /\ alertStale' = Detach(gone)
        /\ alertDom' = Append(kept, [msg |-> m, type |-> t, auto |-> TRUE,
                                     removing |-> FALSE, removals |-> 0])

AlertFrame ==
    /\ UNCHANGED <<domVars, jsVars, netVars, burst>>
    /\ last' = Other

\* Click on the .alert-close button of the k-th notification: start the exit
\* animation and schedule alert.remove(), once more on every click.
AlertClose(k) ==
    /\ k \in 1 .. Len(alertDom)
    /\ alertDom[k].removals < MaxStale
    /\ alertDom' = [alertDom EXCEPT ![k].removing = TRUE, ![k].removals = @ + 1]
    /\ UNCHANGED alertStale
    /\ AlertFrame

\* The 5000 ms timer of the k-th notification:
\* if (alert.parentElement) { animate; schedule alert.remove() }
AlertAutoDismiss(k) ==
    /\ k \in 1 .. Len(alertDom)
    /\ alertDom[k].auto
    /\ alertDom' = [alertDom EXCEPT ![k].auto = FALSE, ![k].removing = TRUE,
                                    ![k].removals = @ + 1]
    /\ UNCHANGED alertStale
    /\ AlertFrame

\* A 300 ms timer of the k-th notification: alert.remove().  The other
\* timers of the element stay pending on the detached element.
AlertRemoval(k) ==
    /\ k \in 1 .. Len(alertDom)
    /\ alertDom[k].removals > 0
    /\ StaleCount(alertStale) + Bit(alertDom[k].auto) + alertDom[k].removals - 1
          <= MaxStale
    /\ alertDom' = RemoveAt(alertDom, k)
    /\ alertStale' = [auto    |-> alertStale.auto + Bit(alertDom[k].auto),
                      removal |-> alertStale.removal + alertDom[k].removals - 1]
    /\ AlertFrame

\* The 5000 ms timer of a detached notification: alert.parentElement is null.
StaleAutoDismiss ==
    /\ alertStale.auto > 0
    /\ alertStale' = [alertStale EXCEPT !.auto = @ - 1]
    /\ UNCHANGED alertDom
    /\ AlertFrame

\* The 300 ms timer of a detached notification: alert.remove() of an element
\* that has no parent.
StaleRemoval ==
    /\ alertStale.removal > 0
    /\ alertStale' = [alertStale EXCEPT !.removal = @ - 1]
    /\ UNCHANGED alertDom
    /\ AlertFrame

(***************************************************************************)
(* The text box: the two input listeners.                                  *)
(***************************************************************************)
\* count > 5000 ? '#ef476f' : '#06d6a0'
CounterWarns(count) == count > MaxChars

\* First input listener: the character counter.
CounterListener(t) ==
    charCounter' = [count |-> StrLen(t), warn |-> CounterWarns(StrLen(t))]

\* Mutant of ClearTimeout: the pending timer is not cancelled.
ClearTimeoutNoop(pending, handle) == pending

\* clearTimeout(detectTimeout): the pending timers that are left.
ClearTimeout(pending, handle) == pending \ {handle}

\* inputText.value.trim().length >= 3
ArmsTimer(t) == StrLen(Trim(t)) >= MinArmLen

\* Second input listener: re-arm the debounce timer.
DebounceListener(t) ==
    LET left == ClearTimeout(timers, detectTimeout)
        free == (1 .. MaxTimers) \ left
    IN  IF ArmsTimer(t)
        THEN /\ free # {}
             /\ detectTimeout' = Least(free)
             /\ timers' = left \cup {Least(free)}
        ELSE /\ detectTimeout' = detectTimeout
             /\ timers' = left

\* An input event on the text box, its value being t.
OnInput(t) ==
    /\ inputText' = t
    /\ CounterListener(t)
    /\ DebounceListener(t)
    /\ burst' = [intact |-> TRUE, sent |-> 0,
                 rearmed |-> ArmsTimer(t) /\ detectTimeout \in timers]

\* An input event of the user: typing, pasting, deleting.  The listeners
\* run whether or not the value has changed.
Type(t) ==
    /\ OnInput(t)
    /\ UNCHANGED <<targetLang, targetLangName, targetLangCode, detectedLang,
                   detectedLangCode, outputText, audioElement, audioPlayer,
                   translateBtn, speakBtn, copyBtn, downloadBtn>>
    /\ UNCHANGED <<currentTranslation, currentAudioUrl>>
    /\ UNCHANGED <<translateReqs, ttsReqs, detectReqs, clipboard>>
    /\ UNCHANGED alertVars
    /\ last' = Other

\* .quick-btn click: load the example text and dispatch an input event.
QuickText(t) ==
    /\ OnInput(t)
    /\ ShowAlert(<<"Example text loaded", "">>, "info")
    /\ UNCHANGED <<targetLang, targetLangName, targetLangCode, detectedLang,
                   detectedLangCode, outputText, audioElement, audioPlayer,
                   translateBtn, speakBtn, copyBtn, downloadBtn>>
    /\ UNCHANGED <<currentTranslation, currentAudioUrl>>
    /\ UNCHANGED <<translateReqs, ttsReqs, detectReqs, clipboard>>
    /\ last' = Other

(***************************************************************************)
(* The target language.                                                    *)
(***************************************************************************)
\* function updateTargetLanguage(), the select's value being v
UpdateTargetLanguage(v) ==
    /\ targetLangName' = OptionName(v)
    /\ targetLangCode' = v

TargetFrame ==
    /\ UNCHANGED <<inputText, charCounter, detectedLang, detectedLangCode, outputText,
                   audioElement, audioPlayer, translateBtn, speakBtn, copyBtn,
                   downloadBtn>>
    /\ UNCHANGED <<jsVars, netVars, burst>>

\* change event of the select
TargetChange(l) ==
    /\ l # targetLang
    /\ targetLang' = l
    /\ UpdateTargetLanguage(l)
    /\ TargetFrame
    /\ UNCHANGED alertVars
    /\ last' = Last("target", EmptyText, l, FALSE, NoReq, NoResp)

\* .lang-quick-btn click
LangQuickBtn(l) ==
    /\ targetLang' = l
    /\ UpdateTargetLanguage(l)
    /\ TargetFrame
    /\ UNCHANGED alertVars
    /\ last' = Last("target", EmptyText, l, FALSE, NoReq, NoResp)

\* .lang-card click
LangCard(l) ==
    /\ targetLang' = l
    /\ UpdateTargetLanguage(l)
    /\ ShowAlert(<<"Selected ", LangName(l)>>, "info")
    /\ TargetFrame
    /\ last' = Last("target", EmptyText, l, FALSE, NoReq, NoResp)

(***************************************************************************)
(* detectLanguage.                                                         *)
(***************************************************************************)
\* Mutant of TooShort: detectLanguage does not check the length.
TooShortUnchecked(text) == FALSE

\* text.length < 3
TooShort(text) == StrLen(text) < MinDetectLen

\* async function detectLanguage(), up to the fetch
DetectLanguage(origin) ==
    LET text == Trim(inputText)
    IN  IF TooShort(text)
        THEN /\ detectedLang' = "Text too short"
             /\ detectedLangCode' = "--"
             /\ UNCHANGED detectReqs
             /\ last' = Last("detect", inputText, origin, FALSE, NoReq, NoResp)
        ELSE /\ CanFetch
             /\ detectReqs' = Append(detectReqs, Req(text, "", origin))
             /\ UNCHANGED <<detectedLang, detectedLangCode>>
             /\ last' = Last("detect", inputText, origin, TRUE, Req(text, "", origin), NoResp)

DetectFrame ==
    /\ UNCHANGED <<inputText, charCounter, targetLang, targetLangName, targetLangCode,
                   outputText, audioElement, audioPlayer, translateBtn, speakBtn,
                   copyBtn, downloadBtn>>
    /\ UNCHANGED <<jsVars, translateReqs, ttsReqs, clipboard>>

\* detectBtn click
DetectClick ==
    /\ DetectLanguage("button")
    /\ DetectFrame
    /\ UNCHANGED <<timers, burst>>
    /\ UNCHANGED alertVars

\* The debounce timer with handle h expires.
DetectTimer(h) ==
    /\ h \in timers
    /\ timers' = timers \ {h}
    /\ DetectLanguage("timer")
    /\ burst' = [burst EXCEPT !.sent = IF last'.sent THEN @ + 1 ELSE @]
    /\ DetectFrame
    /\ UNCHANGED alertVars

\* detectLanguage() after the awaits, for the request at position i
DetectSettle(i, r) ==
    /\ i \in 1 .. Len(detectReqs)
    /\ detectReqs' = RemoveAt(detectReqs, i)
    /\ CASE r.kind = "ok" ->
              /\ detectedLang' = LangName(r.src)
              /\ detectedLangCode' = r.src
              /\ ShowAlert(<<"Detected: ", LangName(r.src)>>, "success")
         [] r.kind = "fail" ->
              /\ UNCHANGED <<detectedLang, detectedLangCode>>
              /\ UNCHANGED alertVars
         [] OTHER ->
              /\ UNCHANGED <<detectedLang, detectedLangCode>>
              /\ ShowAlert(<<"Language detection failed", "">>, "error")
    /\ DetectFrame
    /\ UNCHANGED <<timers, burst>>
    /\ last' = Last("detectSettle", EmptyText, "", FALSE, detectReqs[i], r)


(***************************************************************************)
(* translate.                                                              *)
(***************************************************************************)
\* if (!text)
IsBlank(text) == StrLen(text) = 0

\* Mutant of TooLong: translate does not check the length.
TooLongUnchecked(text) == FALSE

\* if (text.length > 5000)
TooLong(text) == StrLen(text) > MaxChars

\* error.message in a catch block: data.error || fallback for a success:false
\* response, the message of the rejection otherwise.
ErrorMessage(r, fallback) ==
    IF r.kind = "fail" /\ r.error = "" THEN fallback ELSE r.error

TranslateFrame ==
    /\ UNCHANGED <<inputText, charCounter, targetLang>>
    /\ UNCHANGED <<currentAudioUrl, detectTimeout, audioElement>>
    /\ UNCHANGED <<timers, ttsReqs, detectReqs, clipboard, burst>>

\* async function translate(), up to the fetch
Translate ==
    LET text == Trim(inputText)
    IN  /\ IF IsBlank(text)
           THEN /\ ShowAlert(<<"Please enter text to translate", "">>, "error")
                /\ UNCHANGED <<translateBtn, translateReqs>>
                /\ last' = Last("translate", inputText, "", FALSE, NoReq, NoResp)
           ELSE IF TooLong(text)
           THEN /\ ShowAlert(<<"Text is too long (max 5000 characters)", "">>, "error")
                /\ UNCHANGED <<translateBtn, translateReqs>>
                /\ last' = Last("translate", inputText, "", FALSE, NoReq, NoResp)
           ELSE /\ CanFetch
                /\ translateBtn' = [disabled |-> TRUE, label |-> "Translating..."]
                /\ translateReqs' = Append(translateReqs, Req(text, targetLang, ""))
                /\ UNCHANGED alertVars
                /\ last' = Last("translate", inputText, "", TRUE,
                                Req(text, targetLang, ""), NoResp)
        /\ UNCHANGED <<targetLangName, targetLangCode, detectedLang, detectedLangCode,
                       outputText, audioPlayer, speakBtn, copyBtn, downloadBtn,
                       currentTranslation>>
        /\ TranslateFrame

\* translateBtn click: a disabled button dispatches no click.
TranslateClick ==
    /\ ~translateBtn.disabled
    /\ Translate

\* keydown in the text box with ctrlKey and key 'Enter'
CtrlEnter == Translate

\* Mutant of TranslateSuccess: the audio player is not hidden.
TranslateSuccessKeepsPlayer(q, r) ==
    /\ currentTranslation' = r.text
    /\ outputText' = [shown |-> "result", from |-> LangName(r.src),
                      to |-> LangName(r.tgt), text |-> r.text]
    /\ detectedLang' = LangName(r.src)
    /\ detectedLangCode' = r.src
    /\ targetLangName' = LangName(r.tgt)
    /\ targetLangCode' = r.tgt
    /\ speakBtn' = [speakBtn EXCEPT !.disabled = FALSE]
    /\ copyBtn' = [copyBtn EXCEPT !.disabled = FALSE]
    /\ downloadBtn' = [disabled |-> FALSE]
    /\ UNCHANGED audioPlayer
    /\ ShowAlert(<<"Translation successful!", "">>, "success")

\* Mutant of TranslateSuccess: the response of a request is dropped when a
\* request issued after it has already returned success (fencing).
TranslateSuccessFenced(q, r) ==
    /\ currentTranslation' = IF q.rel = "newer" THEN currentTranslation ELSE r.text
    /\ outputText' = IF q.rel = "newer" THEN outputText
                     ELSE [shown |-> "result", from |-> LangName(r.src),
                           to |-> LangName(r.tgt), text |-> r.text]
    /\ detectedLang' = IF q.rel = "newer" THEN detectedLang ELSE LangName(r.src)
    /\ detectedLangCode' = IF q.rel = "newer" THEN detectedLangCode ELSE r.src
    /\ targetLangName' = IF q.rel = "newer" THEN targetLangName ELSE LangName(r.tgt)
    /\ targetLangCode' = IF q.rel = "newer" THEN targetLangCode ELSE r.tgt
    /\ speakBtn' = [speakBtn EXCEPT !.disabled = FALSE]
    /\ copyBtn' = [copyBtn EXCEPT !.disabled = FALSE]
    /\ downloadBtn' = [disabled |-> FALSE]
    /\ audioPlayer' = "none"
    /\ ShowAlert(<<"Translation successful!", "">>, "success")

\* The body of if (data.success) in translate(): lines 147-171.
TranslateSuccess(q, r) ==
    /\ currentTranslation' = r.text
    /\ outputText' = [shown |-> "result", from |-> LangName(r.src),
                      to |-> LangName(r.tgt), text |-> r.text]
    /\ detectedLang' = LangName(r.src)
    /\ detectedLangCode' = r.src
    /\ targetLangName' = LangName(r.tgt)
    /\ targetLangCode' = r.tgt
    /\ speakBtn' = [speakBtn EXCEPT !.disabled = FALSE]
    /\ copyBtn' = [copyBtn EXCEPT !.disabled = FALSE]
    /\ downloadBtn' = [disabled |-> FALSE]
    /\ audioPlayer' = "none"
    /\ ShowAlert(<<"Translation successful!", "">>, "success")

\* The catch block of translate().
TranslateFailure(q, r) ==
    /\ ShowAlert(<<"Translation failed: ", ErrorMessage(r, "Translation failed")>>, "error")
    /\ UNCHANGED <<currentTranslation, outputText, detectedLang, detectedLangCode,
                   targetLangName, targetLangCode, speakBtn, copyBtn, downloadBtn,
                   audioPlayer>>

\* Mutant of TranslateFinally: the cleanup is missing.
TranslateFinallyMissing == UNCHANGED translateBtn

\* The finally block of translate().
TranslateFinally ==
    translateBtn' = [disabled |-> FALSE, label |-> "Translate Now"]

\* History: the requests still in flight once the one at position i has
\* returned, marked when it returned success.
Superseded(reqs, i, ok) ==
    [j \in 1 .. (Len(reqs) - 1) |->
        IF ~ok THEN RemoveAt(reqs, i)[j]
        ELSE [RemoveAt(reqs, i)[j] EXCEPT !.rel = IF j < i THEN "newer" ELSE "older"]]

\* translate() after the awaits, for the request at position i
TranslateSettle(i, r) ==
    /\ i \in 1 .. Len(translateReqs)
    /\ translateReqs' = Superseded(translateReqs, i, r.kind = "ok")
    /\ IF r.kind = "ok"
       THEN TranslateSuccess(translateReqs[i], r)
       ELSE TranslateFailure(translateReqs[i], r)
    /\ TranslateFinally
    /\ TranslateFrame
    /\ last' = Last("translateSettle", EmptyText, "", FALSE, translateReqs[i], r)

(***************************************************************************)
(* generateSpeech.                                                         *)
(***************************************************************************)
SpeechFrame ==
    /\ UNCHANGED <<inputText, charCounter, targetLang, targetLangName, targetLangCode,
                   detectedLang, detectedLangCode, outputText, translateBtn, copyBtn,
                   downloadBtn>>
    /\ UNCHANGED <<currentTranslation, detectTimeout>>
    /\ UNCHANGED <<timers, translateReqs, detectReqs, clipboard, burst>>

\* Mutant of NoTranslation: generateSpeech does not check for a translation.
NoTranslationUnchecked == FALSE

\* if (!currentTranslation)
NoTranslation == currentTranslation = ""

\* async function generateSpeech(), up to the fetch; speakBtn click
GenerateSpeech ==
    /\ ~speakBtn.disabled
    /\ IF NoTranslation
       THEN /\ ShowAlert(<<"No translation available", "">>, "error")
            /\ UNCHANGED <<speakBtn, ttsReqs>>
            /\ last' = Last("speak", EmptyText, currentTranslation, FALSE, NoReq, NoResp)
       ELSE /\ CanFetch
            /\ speakBtn' = [disabled |-> TRUE, label |-> "Generating..."]
            /\ ttsReqs' = Append(ttsReqs, Req(currentTranslation, targetLang, ""))
            /\ UNCHANGED alertVars
            /\ last' = Last("speak", EmptyText, currentTranslation, TRUE,
                            Req(currentTranslation, targetLang, ""), NoResp)
    /\ UNCHANGED <<currentAudioUrl, audioElement, audioPlayer>>
    /\ SpeechFrame

\* The body of if (data.success) in generateSpeech(): lines 207-219.
SpeechSuccess(q, r) ==
    /\ currentAudioUrl' = Audio(q.text, q.lang)
    /\ audioElement' = Audio(q.text, q.lang)
    /\ audioPlayer' = "flex"
    /\ ShowAlert(<<"Speech generated successfully", "">>, "success")

\* Mutant of SpeechFailure: the catch block also hides the audio player.
SpeechFailureHidesPlayer(q, r) ==
    /\ ShowAlert(<<"Speech generation failed: ",
                   ErrorMessage(r, "Speech generation failed")>>, "error")
    /\ audioPlayer' = "none"
    /\ UNCHANGED <<currentAudioUrl, audioElement>>

\* The catch block of generateSpeech().
SpeechFailure(q, r) ==
    /\ ShowAlert(<<"Speech generation failed: ",
                   ErrorMessage(r, "Speech generation failed")>>, "error")
    /\ UNCHANGED <<currentAudioUrl, audioElement, audioPlayer>>

\* The finally block of generateSpeech().
SpeechFinally ==
    speakBtn' = [disabled |-> FALSE, label |-> "Listen"]

\* generateSpeech() after the awaits, for the request at position i
SpeechSettle(i, r) ==
    /\ i \in 1 .. Len(ttsReqs)
    /\ ttsReqs' = RemoveAt(ttsReqs, i)
    /\ IF r.kind = "ok"
       THEN SpeechSuccess(ttsReqs[i], r)
       ELSE SpeechFailure(ttsReqs[i], r)
    /\ SpeechFinally
    /\ SpeechFrame
    /\ last' = Last("speechSettle", EmptyText, "", FALSE, ttsReqs[i], r)

(***************************************************************************)
(* copyTranslation.                                                        *)
(***************************************************************************)
CopyFrame ==
    /\ UNCHANGED <<inputText, charCounter, targetLang, targetLangName, targetLangCode,
                   detectedLang, detectedLangCode, outputText, audioElement, audioPlayer,
                   translateBtn, speakBtn, downloadBtn>>
    /\ UNCHANGED <<jsVars, timers, translateReqs, ttsReqs, detectReqs, burst>>

\* function copyTranslation(); copyBtn click
CopyTranslation ==
    /\ ~copyBtn.disabled
    /\ IF NoTranslation
       THEN /\ ShowAlert(<<"No translation to copy", "">>, "error")
            /\ UNCHANGED clipboard
       ELSE /\ clipboard.writes < MaxCopies
            /\ clipboard' = [clipboard EXCEPT !.writes = @ + 1]
            /\ UNCHANGED alertVars
    /\ UNCHANGED copyBtn
    /\ CopyFrame
    /\ last' = Other

\* The then and catch callbacks of navigator.clipboard.writeText
CopySettle(ok) ==
    /\ clipboard.writes > 0
    /\ IF ok
       THEN /\ clipboard.timers < MaxCopies
            /\ clipboard' = [writes |-> clipboard.writes - 1, timers |-> clipboard.timers + 1]
            /\ copyBtn' = [copyBtn EXCEPT !.label = "Copied!"]
            /\ ShowAlert(<<"Translation copied to clipboard", "">>, "success")
       ELSE /\ clipboard' = [clipboard EXCEPT !.writes = @ - 1]
            /\ UNCHANGED copyBtn
            /\ ShowAlert(<<"Failed to copy text", "">>, "error")
    /\ CopyFrame
    /\ last' = Other

\* The 2000 ms timer that restores the label of the copy button
CopyLabelTimer ==
    /\ clipboard.timers > 0
    /\ clipboard' = [clipboard EXCEPT !.timers = @ - 1]
    /\ copyBtn' = [copyBtn EXCEPT !.label = "Copy"]
    /\ CopyFrame
    /\ UNCHANGED alertVars
    /\ last' = Other

(***************************************************************************)
(* clearAll.                                                               *)
(***************************************************************************)
\* Mutant of ClearOutputs: the audio player is not hidden.
ClearOutputsKeepsPlayer ==
    /\ currentTranslation' = ""
    /\ speakBtn' = [speakBtn EXCEPT !.disabled = TRUE]
    /\ copyBtn' = [copyBtn EXCEPT !.disabled = TRUE]
    /\ UNCHANGED audioPlayer

\* Lines 266-269 of clearAll().
ClearOutputs ==
    /\ currentTranslation' = ""
    /\ speakBtn' = [speakBtn EXCEPT !.disabled = TRUE]
    /\ copyBtn' = [copyBtn EXCEPT !.disabled = TRUE]
    /\ audioPlayer' = "none"

\* function clearAll(); clearBtn click
ClearAll ==
    /\ inputText' = EmptyText
    /\ outputText' = [shown |-> "placeholder", from |-> "", to |-> "", text |-> ""]
    /\ detectedLang' = "Auto-Detect"
    /\ detectedLangCode' = "--"
    /\ ClearOutputs
    /\ charCounter' = [charCounter EXCEPT !.count = 0]
    /\ ShowAlert(<<"All fields cleared", "">>, "info")
    /\ UNCHANGED <<targetLang, targetLangName, targetLangCode, audioElement,
                   translateBtn, downloadBtn>>
    /\ UNCHANGED <<currentAudioUrl, detectTimeout>>
    /\ UNCHANGED netVars
    /\ burst' = [burst EXCEPT !.intact = FALSE]
    /\ last' = Last("clear", EmptyText, "", FALSE, NoReq, NoResp)

(***************************************************************************)
(* The specification.                                                      *)
(***************************************************************************)
Next ==
    \/ \E t \in Texts : Type(t)
    \/ \E t \in QuickTexts : QuickText(t)
    \/ \E l \in Langs : TargetChange(l)
    \/ \E l \in Langs : LangQuickBtn(l)
    \/ \E l \in Langs : LangCard(l)
    \/ DetectClick
    \/ \E h \in 1 .. MaxTimers : DetectTimer(h)
    \/ \E i \in 1 .. MaxRequests, r \in DetectResponses : DetectSettle(i, r)
    \/ TranslateClick
    \/ CtrlEnter
    \/ \E i \in 1 .. MaxRequests, r \in TranslateResponses : TranslateSettle(i, r)
    \/ GenerateSpeech
    \/ \E i \in 1 .. MaxRequests, r \in TtsResponses : SpeechSettle(i, r)
    \/ CopyTranslation
    \/ \E ok \in BOOLEAN : CopySettle(ok)
    \/ CopyLabelTimer
    \/ ClearAll
    \/ \E k \in DOMAIN alertDom : AlertClose(k)
    \/ \E k \in DOMAIN alertDom : AlertAutoDismiss(k)
    \/ \E k \in DOMAIN alertDom : AlertRemoval(k)
    \/ StaleAutoDismiss
    \/ StaleRemoval

Spec == Init /\ [][Next]_vars

(***************************************************************************)
(* Focused specifications.  The state graph of Spec is too large to        *)
(* enumerate, so each property is checked under a specification that keeps *)
(* the handlers that write the variables the property reads and leaves the *)
(* others out; every handler states the variables it leaves unchanged, and *)
(* the handlers left out of a specification leave those it is about        *)
(* unchanged (apart from `last`, which they reset).  Outside               *)
(* SpecNotifications a notification is gone before the next event: its 5 s *)
(* timer and then its removal timer run first.  The notification timers    *)
(* write nothing but the notifications, which no handler reads.            *)
(***************************************************************************)
\* A notification is on display.
Notifying == alertDom # <<>>

\* The notification on display times out and is removed.
Dismiss ==
    \/ \E k \in DOMAIN alertDom : AlertAutoDismiss(k)
    \/ \E k \in DOMAIN alertDom : AlertRemoval(k)

\* What the user types in the specifications that are not about the text.
CoreTexts == { Txt(1, 3, 1, "a") }

\* Client-side validation of translate: every text, the translate handler.
NextValidation ==
    IF Notifying THEN Dismiss
    ELSE \/ \E t \in Texts : Type(t)
         \/ TranslateClick
         \/ CtrlEnter
         \/ \E i \in 1 .. MaxRequests, r \in TranslateResponses : TranslateSettle(i, r)
         \/ ClearAll

SpecValidation == Init /\ [][NextValidation]_vars

\* Language detection: every text, the debounce timer, the detect handler.
NextDetection ==
    IF Notifying THEN Dismiss
    ELSE \/ \E t \in Texts : Type(t)
         \/ \E t \in QuickTexts : QuickText(t)
         \/ DetectClick
         \/ \E h \in 1 .. MaxTimers : DetectTimer(h)
         \/ \E i \in 1 .. MaxRequests, r \in DetectResponses : DetectSettle(i, r)
         \/ ClearAll

SpecDetection == Init /\ [][NextDetection]_vars

\* Translation and speech: one text, the translate and speech handlers.
NextSpeech ==
    IF Notifying THEN Dismiss
    ELSE \/ \E t \in CoreTexts : Type(t)
         \/ \E l \in Langs : TargetChange(l)
         \/ TranslateClick
         \/ CtrlEnter
         \/ \E i \in 1 .. MaxRequests, r \in TranslateResponses : TranslateSettle(i, r)
         \/ GenerateSpeech
         \/ \E i \in 1 .. MaxRequests, r \in TtsResponses : SpeechSettle(i, r)
         \/ ClearAll

SpecSpeech == Init /\ [][NextSpeech]_vars

\* The server answers a /translate request with the target_code it was asked
\* for in target_lang.
Echoes(q, r) == r.kind = "ok" => r.tgt = q.lang

\* Target-language selection with a server that echoes the target language:
\* the three ways of selecting, the translate and speech handlers.
NextSelection ==
    IF Notifying THEN Dismiss
    ELSE \/ \E t \in CoreTexts : Type(t)
         \/ \E l \in Langs : TargetChange(l)
         \/ \E l \in Langs : LangQuickBtn(l)
         \/ \E l \in Langs : LangCard(l)
         \/ TranslateClick
         \/ CtrlEnter
         \/ \E i \in DOMAIN translateReqs, r \in TranslateResponses :
                Echoes(translateReqs[i], r) /\ TranslateSettle(i, r)
         \/ GenerateSpeech
         \/ \E i \in 1 .. MaxRequests, r \in TtsResponses : SpeechSettle(i, r)
         \/ ClearAll

SpecSelection == Init /\ [][NextSelection]_vars

\* Notifications: callers of showAlert, and every timer and close handler.
NextNotifications ==
    \/ \E t \in QuickTexts : QuickText(t)
    \/ \E l \in Langs : LangQuickBtn(l)
    \/ \E l \in Langs : LangCard(l)
    \/ TranslateClick
    \/ \E i \in 1 .. MaxRequests, r \in TranslateResponses : TranslateSettle(i, r)
    \/ CopyTranslation
    \/ \E ok \in BOOLEAN : CopySettle(ok)
    \/ CopyLabelTimer
    \/ ClearAll
    \/ \E k \in DOMAIN alertDom : AlertClose(k)
    \/ \E k \in DOMAIN alertDom : AlertAutoDismiss(k)
    \/ \E k \in DOMAIN alertDom : AlertRemoval(k)
    \/ StaleAutoDismiss
    \/ StaleRemoval

SpecNotifications == Init /\ [][NextNotifications]_vars

(***************************************************************************)
(* Properties.                                                             *)
(***************************************************************************)
\* The notification added last is an error notification.
ErrorShown == alertDom # <<>> /\ alertDom[Len(alertDom)].type = "error"

JustTranslated == last.op = "translate"

\* C1 as claimed: whenever translate has just been invoked on an input text
\* of more than 5000 characters, no /translate request was issued and an
\* error notification is shown.
C1_AsClaimed ==
    (JustTranslated /\ StrLen(last.input) > MaxChars) => (~last.sent /\ ErrorShown)

\* C1 as amended: whenever translate has just been invoked on an input text
\* whose length after trimming is more than 5000 characters, no /translate
\* request was issued and an error notification is shown; and no /translate
\* request in flight carries a text of more than 5000 characters.
C1_TrimmedTooLongRejected ==
    /\ (JustTranslated /\ StrLen(Trim(last.input)) > MaxChars)
          => (~last.sent /\ ErrorShown)
    /\ \A i \in DOMAIN translateReqs : StrLen(translateReqs[i].text) <= MaxChars

\* translate has just rejected a text of 5001 characters after trimming.
C1_Witness == JustTranslated /\ StrLen(Trim(last.input)) > MaxChars /\ ~last.sent

\* C2: no /detect request in flight carries a text of trimmed length less
\* than 3, and detectLanguage, invoked by the button or by the debounce timer
\* on a text of trimmed length less than 3, issues no request.
C2_NoShortDetect ==
    /\ \A i \in DOMAIN detectReqs : StrLen(Trim(detectReqs[i].text)) >= MinDetectLen
    /\ (last.op = "detect" /\ StrLen(Trim(last.input)) < MinDetectLen) => ~last.sent

\* The debounce timer has just fired after clearAll emptied the text box
\* without an input event, and issued nothing.
C2_Witness ==
    last.op = "detect" /\ last.cur = "timer" /\ ~burst.intact /\ ~last.sent

\* C3 as claimed: whenever the audio player is visible, the audio it points
\* at was synthesized from the current translation.
C3_AsClaimed ==
    audioPlayer = "flex" =>
        (currentAudioUrl # NoAudio /\ currentAudioUrl.text = currentTranslation)

\* C4: in the state right after clearAll the speak and copy controls are
\* disabled, the audio player is hidden and currentTranslation is empty.
C4_ClearResets ==
    last.op = "clear" =>
        /\ speakBtn.disabled
        /\ copyBtn.disabled
        /\ audioPlayer = "none"
        /\ currentTranslation = ""

\* clearAll has just run while a /tts request and a /translate request were
\* in flight and audio had been generated before.
C4_Witness ==
    /\ last.op = "clear"
    /\ ttsReqs # <<>>
    /\ translateReqs # <<>>
    /\ currentAudioUrl # NoAudio

\* C5: right after a /translate request settles, whatever the outcome, the
\* translate control is enabled with its idle label; right after a /tts
\* request settles, whatever the outcome, the speak control is enabled with
\* its idle label; and while no /translate request is in flight the translate
\* control is enabled.
C5_CleanupAlwaysRuns ==
    /\ last.op = "translateSettle" =>
           translateBtn = [disabled |-> FALSE, label |-> "Translate Now"]
    /\ last.op = "speechSettle" => speakBtn = [disabled |-> FALSE, label |-> "Listen"]
    /\ translateReqs = <<>> => ~translateBtn.disabled

\* A /translate request has just settled by a JSON parse error while another
\* one is still in flight.
C5_Witness ==
    /\ last.op = "translateSettle"
    /\ last.resp.kind = "parseerr"
    /\ translateReqs # <<>>

\* A timer of a notification that is no longer in the document fires.
StaleTimerFires == StaleCount(alertStale') < StaleCount(alertStale)

\* C6: the document holds at most one notification in every reachable state,
\* and a timer of a notification that has left the document leaves the
\* notifications of the document as they are.
C6_OneNotification ==
    /\ [](Len(alertDom) <= 1)
    /\ [][StaleTimerFires => alertDom' = alertDom]_vars

\* A notification is on display, untouched, while the removal timer that the
\* close button of an earlier notification scheduled is still pending.
C6_Witness ==
    /\ Len(alertDom) = 1
    /\ ~alertDom[1].removing
    /\ alertStale.removal > 0

\* C7: at most one debounce timer is pending; at most one debounced /detect
\* request is issued per input event; while the text box holds a text of
\* trimmed length at least 3, either the timer of the last input event is
\* pending and nothing was sent since, or it has fired and exactly one
\* request was sent; and a debounced request carries the trimmed text that
\* the text box holds when the timer fires, the one of the last input event.
C7_Debounce ==
    /\ Cardinality(timers) <= 1
    /\ burst.sent <= 1
    /\ StrLen(Trim(inputText)) >= MinDetectLen => Cardinality(timers) + burst.sent = 1
    /\ (last.op = "detect" /\ last.cur = "timer" /\ last.sent)
          => (burst.intact /\ last.req.text = Trim(inputText))

\* The timer of an input event that cancelled the timer of an earlier one has
\* just fired and issued the one request.
C7_Witness ==
    /\ last.op = "detect"
    /\ last.cur = "timer"
    /\ last.sent
    /\ burst.rearmed
    /\ burst.sent = 1

\* C8: right after the speak action was invoked with no current translation,
\* an error notification is shown, no /tts request was issued and the speak
\* control is not disabled; and no /tts request in flight carries an empty
\* text.
C8_SpeakNeedsTranslation ==
    /\ (last.op = "speak" /\ last.cur = "") =>
           (~last.sent /\ ErrorShown /\ ~speakBtn.disabled)
    /\ \A i \in DOMAIN ttsReqs : ttsReqs[i].text # ""

\* The speak action has just been invoked with no current translation.
C8_Witness == last.op = "speak" /\ last.cur = "" /\ outputText.shown = "placeholder"

JustSucceeded == last.op = "translateSettle" /\ last.resp.kind = "ok"

\* What a success response leaves in the result area and the displays.
ShowsResponse(r) ==
    /\ currentTranslation = r.text
    /\ outputText = [shown |-> "result", from |-> LangName(r.src),
                     to |-> LangName(r.tgt), text |-> r.text]
    /\ detectedLang = LangName(r.src)
    /\ detectedLangCode = r.src
    /\ targetLangName = LangName(r.tgt)
    /\ targetLangCode = r.tgt

\* C9: right after a success response of /translate is handled, the stored
\* translation and the result area are those of the response, the source and
\* target displays are set from the response, the speak, copy and download
\* controls are enabled and the audio player is hidden.
C9_SuccessReplaces ==
    JustSucceeded =>
        /\ ShowsResponse(last.resp)
        /\ ~speakBtn.disabled
        /\ ~copyBtn.disabled
        /\ ~downloadBtn.disabled
        /\ audioPlayer = "none"

\* A success response with text T2 has just been handled while the audio of
\* the earlier translation T1 is the current audio.
C9_Witness ==
    /\ JustSucceeded
    /\ last.resp.text = "T2"
    /\ currentAudioUrl.text = "T1"

\* C10: right after the success response of a /translate request that
\* overlapped another request whose success response was handled before, the
\* retained translation and the displays are those of this later response,
\* whichever of the two requests was issued first.
C10_LastResponseWins ==
    (JustSucceeded /\ last.req.rel # "no") => ShowsResponse(last.resp)

\* The request issued first has returned success after the one issued second
\* did.
C10_Witness ==
    /\ JustSucceeded
    /\ last.req.rel = "newer"
    /\ last.resp.text = "T1"

\* A /translate or /tts request has just settled without success: success
\* false, a network rejection or an unparsable body.
JustFailed ==
    /\ last.op \in {"translateSettle", "speechSettle"}
    /\ last.resp.kind # "ok"

\* C11: a step in which a /translate or /tts request settles without success
\* leaves currentTranslation, currentAudioUrl, the result area, the detection
\* and target-language displays, the visibility of the audio player and the
\* enablement of the copy and download controls as they were; it shows an
\* error notification, returns the control that triggered the request to
\* enabled with its idle label and leaves the other of the two controls alone.
C11_FailureKeepsState ==
    [][JustFailed' =>
          /\ UNCHANGED <<currentTranslation, currentAudioUrl, audioElement, outputText,
                         detectedLang, detectedLangCode, targetLangName, targetLangCode,
                         audioPlayer, downloadBtn>>
          /\ copyBtn'.disabled = copyBtn.disabled
          /\ ErrorShown'
          /\ last'.op = "translateSettle" =>
                 /\ translateBtn' = [disabled |-> FALSE, label |-> "Translate Now"]
                 /\ UNCHANGED speakBtn
          /\ last'.op = "speechSettle" =>
                 /\ speakBtn' = [disabled |-> FALSE, label |-> "Listen"]
                 /\ UNCHANGED translateBtn]_vars

\* A /tts request has just failed with success false while a translation is
\* current and the audio player is visible with audio generated earlier.
C11_Witness ==
    /\ JustFailed
    /\ last.op = "speechSettle"
    /\ last.resp.kind = "fail"
    /\ audioPlayer = "flex"
    /\ currentTranslation # ""
    /\ currentAudioUrl # NoAudio

\* The message of the notification added last names the text m.
Carries(m) ==
    /\ alertDom # <<>>
    /\ \E k \in 1 .. 2 : alertDom[Len(alertDom)].msg[k] = m

\* C12 as claimed: right after a /detect, /translate or /tts request settles
\* by a network failure or by a response whose success field is false, an
\* error notification is shown, and it carries the error message of the
\* response when the response has one.
C12_AsClaimed ==
    (/\ last.op \in {"detectSettle", "translateSettle", "speechSettle"}
     /\ last.resp.kind \in {"fail", "neterr"})
        => /\ ErrorShown
           /\ (last.resp.kind = "fail" /\ last.resp.error # "") => Carries(last.resp.error)

\* translate has just been invoked and has rejected the text.
JustRejected == last.op = "translate" /\ ~last.sent

\* C13 as claimed: a step in which translate rejects the text shows an error
\* notification, the one for an empty text when the text is empty after
\* trimming; it issues no /translate request; it leaves the translate
\* control, currentTranslation, the result area and the speak, copy and
\* download controls as they were; and the translate control is enabled
\* after it.
C13_AsClaimed ==
    [][JustRejected' =>
          /\ ErrorShown'
          /\ IsBlank(Trim(last'.input)) => Carries("Please enter text to translate")'
          /\ UNCHANGED <<translateReqs, translateBtn, currentTranslation, outputText,
                         speakBtn, copyBtn, downloadBtn>>
          /\ ~translateBtn'.disabled]_vars

\* The detection display is in its too-short state.
TooShortShown == detectedLang = "Text too short" /\ detectedLangCode = "--"

\* C14 as claimed: a step in which an input event leaves a text of trimmed
\* length less than 3 in the text box, or in which detectLanguage runs on
\* such a text, leaves the detection display in its too-short state.
C14_AsClaimed ==
    [][(/\ (inputText' # inputText /\ last'.op # "clear") \/ last'.op = "detect"
        /\ StrLen(Trim(inputText')) < MinDetectLen)
           => TooShortShown']_vars

\* C15 as claimed: right after generateSpeech has issued a /tts request, the
\* request carries the current translation as its text, and its lang is the
\* target code of that translation: the language that the result area names
\* as the one translated to.
C15_AsClaimed ==
    (last.op = "speak" /\ last.sent) =>
        /\ last.req.text = currentTranslation
        /\ outputText.shown = "result"
        /\ outputText.to = LangName(last.req.lang)

\* C16 as claimed: while a /translate request is in flight the translate
\* control is disabled with its busy label, and at most one /translate
\* request is in flight.
C16_AsClaimed ==
    /\ translateReqs # <<>> =>
           translateBtn = [disabled |-> TRUE, label |-> "Translating..."]
    /\ Len(translateReqs) <= 1

\* C17 as claimed: while a /tts request is in flight the speak control is
\* disabled, and at most one /tts request is in flight.
C17_AsClaimed ==
    /\ ttsReqs # <<>> => speakBtn.disabled
    /\ Len(ttsReqs) <= 1

\* C18 as claimed: while no /tts request is in flight, the speak control and
\* the copy control are enabled only if currentTranslation is not empty.
C18_AsClaimed ==
    ttsReqs = <<>> =>
        ((~speakBtn.disabled \/ ~copyBtn.disabled) => currentTranslation # "")

\* What clearAll leaves in the result area, the detection display, the speak
\* and copy controls and the audio player.
Cleared ==
    /\ outputText.shown = "placeholder"
    /\ currentTranslation = ""
    /\ detectedLang = "Auto-Detect"
    /\ detectedLangCode = "--"
    /\ speakBtn.disabled
    /\ copyBtn.disabled
    /\ audioPlayer = "none"

\* The step is not a user action: a response is handled or the debounce
\* timer fires.
Background ==
    \/ last.op \in {"translateSettle", "speechSettle", "detectSettle"}
    \/ last.op = "detect" /\ last.cur = "timer"

\* C19 as claimed: once clearAll has run, with no input event since and the
\* cleared state still in place, a step that handles a /translate, /tts or
\* /detect response or in which the debounce timer fires leaves the cleared
\* state in place.
C19_AsClaimed ==
    [][(~burst.intact /\ Cleared /\ Background') => Cleared']_vars

\* C20 as claimed, with a server that echoes the target language: a step
\* that selects a target language issues no request and leaves the selector
\* and the displayed target code at the selected value; and after every step
\* that leaves no /translate request in flight, the displayed target code is
\* the value of the selector.
C20_AsClaimed ==
    [][/\ last'.op = "target" =>
              /\ targetLang' = last'.cur
              /\ targetLangCode' = last'.cur
              /\ UNCHANGED <<translateReqs, ttsReqs, detectReqs>>
       /\ translateReqs' = <<>> => targetLangCode' = targetLang']_vars

====
